---- MODULE Spec2Model ----
(***************************************************************************)
(* Model of discover-fiply: the FIP history client (src/src/fip_client.rs) *)
(* and the pagination walk, the occurrence ranking and the codec of the    *)
(* continuation cursor (src/src/main.rs).                                  *)
(*                                                                         *)
(* Rust Strings are modelled as sequences of bytes (numbers 0..255), so    *)
(* that comparison, base64 and decimal formatting are computed and not     *)
(* assumed.  Option<T> is a sequence of length 0 (None) or 1 (Some).       *)
(* Result<T, E> is a record [ok |-> BOOLEAN, ...].                         *)
(*                                                                         *)
(* Times are seconds since the epoch and stay below 2^31, the integers of  *)
(* the model checker: the panics of SystemTime + Duration and of the       *)
(* RFC 3339 formatting on times beyond the year 9999 are not among the     *)
(* inputs of the model.                                                    *)
(***************************************************************************)
EXTENDS Integers, Sequences, FiniteSets, TLC

----------------------------------------------------------------------------
(* Bounds of the model *)

\* longest event sequence given to count_occurences in SpecRank
MaxSongs == 4
\* largest time (seconds since epoch) the feed's cursors carry in Spec
MaxTime == 3
\* most events the feed returns over one whole walk in Spec
MaxEvents == 2
\* longest edges array of a response in SpecParse
MaxEdges == 3
\* SpecCodec encodes every time in 0..MaxSmallTime besides the sampled ones
MaxSmallTime == 120

----------------------------------------------------------------------------
(* Byte strings *)

RECURSIVE StrLess(_, _)
\* str::cmp, the lexicographic order of the bytes: a < b
StrLess(a, b) ==
    IF b = <<>> THEN FALSE
    ELSE IF a = <<>> THEN TRUE
    ELSE IF Head(a) # Head(b) THEN Head(a) < Head(b)
    ELSE StrLess(Tail(a), Tail(b))

----------------------------------------------------------------------------
(* Decimal formatting and parsing of u64 *)

RECURSIVE to_string(_)
\* u64::to_string: the decimal digits of n, no leading zero, "0" for 0
to_string(n) ==
    IF n < 10 THEN <<48 + n>>
    ELSE Append(to_string(n \div 10), 48 + (n % 10))

IsDigit(c) == c >= 48 /\ c <= 57

RECURSIVE DigitsValue(_, _)
\* the fold of from_str_radix: result = result * 10 + digit
DigitsValue(acc, s) ==
    IF s = <<>> THEN acc
    ELSE DigitsValue(acc * 10 + (Head(s) - 48), Tail(s))

RECURSIVE StripZeros(_)
StripZeros(s) ==
    IF s # <<>> /\ Head(s) = 48 THEN StripZeros(Tail(s)) ELSE s

\* the decimal digits of u64::MAX, 18446744073709551615
U64MaxDigits ==
    <<49,56,52,52,54,55,52,52,48,55,51,55,48,57,53,53,49,54,49,53>>

\* checked_mul / checked_add overflow of from_str_radix, decided on the digits
Overflows(s) ==
    LET d == StripZeros(s)
    IN  \/ Len(d) > Len(U64MaxDigits)
        \/ Len(d) = Len(U64MaxDigits) /\ StrLess(U64MaxDigits, d)

\* u64::from_str_radix(s, 10): an optional leading '+', then one or more
\* digits; Err on the empty string, a lone sign, a non-digit, or overflow
from_str_radix(s) ==
    IF s = <<>> THEN [ok |-> FALSE, err |-> "Empty"]
    ELSE LET digits == IF Head(s) = 43 THEN Tail(s) ELSE s
         IN  IF digits = <<>> THEN [ok |-> FALSE, err |-> "InvalidDigit"]
             ELSE IF \E i \in 1..Len(digits) : ~IsDigit(digits[i])
                  THEN [ok |-> FALSE, err |-> "InvalidDigit"]
             ELSE IF Overflows(digits) THEN [ok |-> FALSE, err |-> "PosOverflow"]
             ELSE [ok |-> TRUE, val |-> DigitsValue(0, digits)]

----------------------------------------------------------------------------
(* base64, standard alphabet with padding *)

\* the character of a 6-bit value: A-Z a-z 0-9 + /
B64Char(v) ==
    IF v < 26 THEN 65 + v
    ELSE IF v < 52 THEN 97 + (v - 26)
    ELSE IF v < 62 THEN 48 + (v - 52)
    ELSE IF v = 62 THEN 43 ELSE 47

IsB64Char(c) ==
    \/ c >= 65 /\ c <= 90
    \/ c >= 97 /\ c <= 122
    \/ c >= 48 /\ c <= 57
    \/ c = 43
    \/ c = 47

\* the 6-bit value of a character of the alphabet
B64Val(c) ==
    IF c >= 65 /\ c <= 90 THEN c - 65
    ELSE IF c >= 97 /\ c <= 122 THEN c - 97 + 26
    ELSE IF c >= 48 /\ c <= 57 THEN c - 48 + 52
    ELSE IF c = 43 THEN 62 ELSE 63

Pad == 61

RECURSIVE base64_encode(_)
\* base64::encode: 3 bytes to 4 characters, the tail padded with '='
base64_encode(b) ==
    IF b = <<>> THEN <<>>
    ELSE IF Len(b) = 1 THEN
        <<B64Char(b[1] \div 4), B64Char((b[1] % 4) * 16), Pad, Pad>>
    ELSE IF Len(b) = 2 THEN
        <<B64Char(b[1] \div 4),
          B64Char((b[1] % 4) * 16 + b[2] \div 16),
          B64Char((b[2] % 16) * 4), Pad>>
    ELSE <<B64Char(b[1] \div 4),
           B64Char((b[1] % 4) * 16 + b[2] \div 16),
           B64Char((b[2] % 16) * 4 + b[3] \div 64),
           B64Char(b[3] % 64)>>
         \o base64_encode(SubSeq(b, 4, Len(b)))

RECURSIVE PadCount(_)
PadCount(s) ==
    IF s # <<>> /\ s[Len(s)] = Pad THEN 1 + PadCount(SubSeq(s, 1, Len(s) - 1))
    ELSE 0

RECURSIVE DecodeSymbols(_)
\* the bytes of a run of symbols: 4 symbols give 3 bytes, 3 give 2, 2 give 1
DecodeSymbols(v) ==
    IF Len(v) < 2 THEN <<>>
    ELSE IF Len(v) = 2 THEN <<v[1] * 4 + v[2] \div 16>>
    ELSE IF Len(v) = 3 THEN
        <<v[1] * 4 + v[2] \div 16, (v[2] % 16) * 16 + v[3] \div 4>>
    ELSE <<v[1] * 4 + v[2] \div 16,
           (v[2] % 16) * 16 + v[3] \div 4,
           (v[3] % 4) * 64 + v[4]>>
         \o DecodeSymbols(SubSeq(v, 5, Len(v)))

\* base64::decode: Err on a byte outside the alphabet, on padding that is
\* misplaced or does not complete the last quad, on a lone trailing symbol
\* and on non-zero trailing bits. The cursors of the model are padded
\* canonically or hold a byte outside the alphabet.
base64_decode(s) ==
    LET p    == PadCount(s)
        syms == SubSeq(s, 1, Len(s) - p)
        v    == [i \in 1..Len(syms) |-> B64Val(syms[i])]
        r    == Len(syms) % 4
    IN  IF \E i \in 1..Len(syms) : ~IsB64Char(syms[i])
        THEN [ok |-> FALSE, err |-> "InvalidByte"]
        ELSE IF p > 2 \/ (p > 0 /\ Len(s) % 4 # 0)
        THEN [ok |-> FALSE, err |-> "InvalidByte"]
        ELSE IF r = 1 THEN [ok |-> FALSE, err |-> "InvalidLength"]
        ELSE IF (r = 2 /\ v[Len(v)] % 16 # 0) \/ (r = 3 /\ v[Len(v)] % 4 # 0)
        THEN [ok |-> FALSE, err |-> "InvalidLastSymbol"]
        ELSE [ok |-> TRUE, val |-> DecodeSymbols(v)]

\* String::from_utf8 on the bytes the model uses: ASCII is valid, and the
\* only other byte fed is 0xFF, which no UTF-8 sequence holds
from_utf8(b) ==
    IF \A i \in 1..Len(b) : b[i] < 128
    THEN [ok |-> TRUE, val |-> b]
    ELSE [ok |-> FALSE, err |-> "FromUtf8Error"]

----------------------------------------------------------------------------
(* Cursor codec *)

\* build_query: the "after" variable is base64 of the decimal seconds
time_encoded(time_sec) == base64_encode(to_string(time_sec))

\* the cursor parsed as a number without the base64 decoding
decode_end_cursor_NoBase64(end_cursor) == from_str_radix(end_cursor)

\* a decoding that reads a cursor it cannot decode as 0
decode_end_cursor_OrZero(end_cursor) ==
    LET b == base64_decode(end_cursor)
        u == IF b.ok THEN from_utf8(b.val) ELSE b
        n == IF u.ok THEN from_str_radix(u.val) ELSE u
    IN  IF n.ok THEN n ELSE [ok |-> TRUE, val |-> 0]

\* fetch_last_songs, decoding of page.end_cursor: each unwrap() panics on Err
decode_end_cursor(end_cursor) ==
    LET b == base64_decode(end_cursor)
    IN  IF ~b.ok THEN [ok |-> FALSE, err |-> b.err]
        ELSE LET u == from_utf8(b.val)
             IN  IF ~u.ok THEN [ok |-> FALSE, err |-> u.err]
                 ELSE from_str_radix(u.val)

----------------------------------------------------------------------------
(* TimelineItem and the occurrence ranking *)

Max(S) == CHOOSE x \in S : \A y \in S : y <= x
Min(S) == CHOOSE x \in S : \A y \in S : x <= y

TitleA == <<65>>
TitleB == <<66>>
TitleC == <<67>>
Titles == {TitleA, TitleB, TitleC}

\* struct TimelineItem; start_time tells two plays of one title apart
TimelineItem(subtitle, start_time) ==
    [album |-> <<120>>, subtitle |-> subtitle, interpreters |-> <<>>,
     year |-> <<>>, start_time |-> start_time]

\* x goes behind every element that does not compare greater (stable)
InsertBySubtitle(x, sorted) ==
    LET p == Cardinality({j \in 1..Len(sorted) :
                             ~StrLess(x.subtitle, sorted[j].subtitle)})
    IN  SubSeq(sorted, 1, p) \o <<x>> \o SubSeq(sorted, p + 1, Len(sorted))

RECURSIVE SortRangeBySubtitle(_, _, _, _)
\* songs[lo..hi] inserted one after another, in order, into sorted
SortRangeBySubtitle(songs, lo, hi, sorted) ==
    IF lo > hi THEN sorted
    ELSE IF lo = hi THEN InsertBySubtitle(songs[lo], sorted)
    ELSE LET mid  == (lo + hi) \div 2
             left == SortRangeBySubtitle(songs, lo, mid, sorted)
         IN  IF Len(left) = 0 THEN left  \* never: lo..mid is not empty
             ELSE SortRangeBySubtitle(songs, mid + 1, hi, left)

\* songs.sort_by(|a, b| a.subtitle.cmp(&b.subtitle)): stable, ascending
sort_by_subtitle(songs) == SortRangeBySubtitle(songs, 1, Len(songs), <<>>)

InsertByCount(x, sorted) ==
    LET p == Cardinality({j \in 1..Len(sorted) : ~(x[2] < sorted[j][2])})
    IN  SubSeq(sorted, 1, p) \o <<x>> \o SubSeq(sorted, p + 1, Len(sorted))

RECURSIVE SortRangeByCount(_, _, _, _)
SortRangeByCount(counted, lo, hi, sorted) ==
    IF lo > hi THEN sorted
    ELSE IF lo = hi THEN InsertByCount(counted[lo], sorted)
    ELSE LET mid  == (lo + hi) \div 2
             left == SortRangeByCount(counted, lo, mid, sorted)
         IN  IF Len(left) = 0 THEN left  \* never: lo..mid is not empty
             ELSE SortRangeByCount(counted, mid + 1, hi, left)

\* counted.sort_by_key(|p| p.1): stable, ascending by count
sort_by_key(counted) == SortRangeByCount(counted, 1, Len(counted), <<>>)

\* the reversal forgotten
rev_Forgotten(s) == s

\* into_iter().rev().collect()
rev(s) == [i \in 1..Len(s) |-> s[Len(s) + 1 - i]]

\* the loop body with last_seen moved on to every event of the title
CountStep_KeepsLast(st, s, overflow_checks) ==
    IF st.panicked THEN st
    ELSE IF s.subtitle = st.last_seen.subtitle
         THEN IF st.count = 255 /\ overflow_checks
              THEN [st EXCEPT !.panicked = TRUE, !.counted = <<>>]
              ELSE [st EXCEPT !.count = (st.count + 1) % 256, !.last_seen = s]
         ELSE [st EXCEPT !.counted = Append(@, <<st.last_seen, st.count>>),
                         !.last_seen = s, !.count = 1]

\* one iteration of the for loop of count_occurences on the event s; the
\* count is a u8: count + 1 panics above 255 when the build checks
\* overflow and wraps to 0 when it does not
CountStep(st, s, overflow_checks) ==
    IF st.panicked THEN st
    ELSE IF s.subtitle = st.last_seen.subtitle
         THEN IF st.count = 255 /\ overflow_checks
              THEN [st EXCEPT !.panicked = TRUE, !.counted = <<>>]
              ELSE [st EXCEPT !.count = (st.count + 1) % 256]
         ELSE [st EXCEPT !.counted = Append(@, <<st.last_seen, st.count>>),
                         !.last_seen = s, !.count = 1]

RECURSIVE CountLoop(_, _, _, _, _)
\* the for loop of count_occurences over rest[lo..hi], what is left of
\* songs after the pop, in ascending order
CountLoop(rest, lo, hi, st, overflow_checks) ==
    IF lo > hi THEN st
    ELSE IF lo = hi THEN CountStep(st, rest[lo], overflow_checks)
    ELSE LET mid  == (lo + hi) \div 2
             left == CountLoop(rest, lo, mid, st, overflow_checks)
         IN  IF left.panicked THEN left  \* the panic ends the loop
             ELSE CountLoop(rest, mid + 1, hi, left, overflow_checks)

\* count_occurences: sort by title, pop the last element as the first
\* last_seen (unwrap() panics on an empty vector), run the loop over the
\* rest in ascending order, sort by count and reverse
count_occurences(songs, overflow_checks) ==
    LET sorted == sort_by_subtitle(songs)
    IN  IF sorted = <<>> THEN [panicked |-> TRUE, counted |-> <<>>]
        ELSE LET last_seen == sorted[Len(sorted)]
                 rest      == SubSeq(sorted, 1, Len(sorted) - 1)
                 r         == CountLoop(rest, 1, Len(rest),
                                        [panicked |-> FALSE, counted |-> <<>>,
                                         last_seen |-> last_seen, count |-> 1],
                                        overflow_checks)
             IN  IF r.panicked THEN [panicked |-> TRUE, counted |-> <<>>]
                 ELSE [panicked |-> FALSE, counted |-> rev(sort_by_key(r.counted))]

\* main: counted.into_iter().filter(|i| i.1 == 1).collect()
played_once(counted) == SelectSeq(counted, LAMBDA i : i[2] = 1)

----------------------------------------------------------------------------
(* serde_json::Value, as tagged records; an object is a record of members *)

JNull      == [t |-> "null"]
JBool(b)   == [t |-> "bool", v |-> b]
JNum(n)    == [t |-> "number", v |-> n]
JStr(s)    == [t |-> "string", v |-> s]
JArr(a)    == [t |-> "array", v |-> a]
JObj(o)    == [t |-> "object", v |-> o]

\* Value::get on an object: the Option of the member
Get(obj, key) == IF key \in DOMAIN obj THEN <<obj[key]>> ELSE <<>>

\* deserialize String
DeString(j) ==
    IF j.t = "string" THEN [ok |-> TRUE, val |-> j.v] ELSE [ok |-> FALSE]

\* deserialize bool
DeBool(j) ==
    IF j.t = "bool" THEN [ok |-> TRUE, val |-> j.v] ELSE [ok |-> FALSE]

\* deserialize u32: a number in 0 .. 2^32 - 1
DeU32(j) ==
    IF j.t = "number" /\ j.v >= 0 /\ j.v \div 65536 < 65536
    THEN [ok |-> TRUE, val |-> j.v] ELSE [ok |-> FALSE]

\* deserialize Option<u16>: null is None, else a number in 0 .. 65535
DeOptionU16(j) ==
    IF j.t = "null" THEN [ok |-> TRUE, val |-> <<>>]
    ELSE IF j.t = "number" /\ j.v >= 0 /\ j.v < 65536
         THEN [ok |-> TRUE, val |-> <<j.v>>] ELSE [ok |-> FALSE]

\* deserialize Vec<String>
DeVecString(j) ==
    IF j.t = "array" /\ \A i \in 1..Len(j.v) : j.v[i].t = "string"
    THEN [ok |-> TRUE, val |-> [i \in 1..Len(j.v) |-> j.v[i].v]]
    ELSE [ok |-> FALSE]

\* the members of a struct given as a JSON array are its fields in order,
\* and the array must have exactly that many elements
FieldsOf(j, names) ==
    IF j.t = "object" THEN [ok |-> TRUE, val |-> j.v]
    ELSE IF j.t = "array" /\ Len(j.v) = Len(names)
         THEN [ok |-> TRUE,
               val |-> [k \in {names[i] : i \in 1..Len(names)} |->
                          j.v[CHOOSE i \in 1..Len(names) : names[i] = k]]]
         ELSE [ok |-> FALSE]

\* #[derive(Deserialize)] struct TimelineItem: album, subtitle, interpreters
\* and start_time are required, year may be absent; other members are ignored
DeTimelineItem(j) ==
    LET f == FieldsOf(j, <<"album", "subtitle", "interpreters", "year", "start_time">>)
    IN  IF ~f.ok THEN [ok |-> FALSE]
        ELSE IF ~({"album", "subtitle", "interpreters", "start_time"} \subseteq DOMAIN f.val)
        THEN [ok |-> FALSE]
        ELSE LET album        == DeString(f.val.album)
                 subtitle     == DeString(f.val.subtitle)
                 interpreters == DeVecString(f.val.interpreters)
                 year         == IF "year" \in DOMAIN f.val
                                 THEN DeOptionU16(f.val.year)
                                 ELSE [ok |-> TRUE, val |-> <<>>]
                 start_time   == DeU32(f.val.start_time)
             IN  IF album.ok /\ subtitle.ok /\ interpreters.ok /\ year.ok /\ start_time.ok
                 THEN [ok |-> TRUE,
                       val |-> [album |-> album.val, subtitle |-> subtitle.val,
                                interpreters |-> interpreters.val,
                                year |-> year.val, start_time |-> start_time.val]]
                 ELSE [ok |-> FALSE]

\* #[derive(Deserialize)] struct TimeLineItemEdge { node: TimelineItem }
DeTimeLineItemEdge(j) ==
    LET f == FieldsOf(j, <<"node">>)
    IN  IF ~f.ok \/ "node" \notin DOMAIN f.val THEN [ok |-> FALSE]
        ELSE LET node == DeTimelineItem(f.val.node)
             IN  IF node.ok THEN [ok |-> TRUE, val |-> [node |-> node.val]]
                 ELSE [ok |-> FALSE]

\* #[derive(Deserialize)] struct PageInfo { endCursor, hasNextPage }
DePageInfo(j) ==
    LET f == FieldsOf(j, <<"endCursor", "hasNextPage">>)
    IN  IF ~f.ok \/ ~({"endCursor", "hasNextPage"} \subseteq DOMAIN f.val)
        THEN [ok |-> FALSE]
        ELSE LET end_cursor    == DeString(f.val.endCursor)
                 has_next_page == DeBool(f.val.hasNextPage)
             IN  IF end_cursor.ok /\ has_next_page.ok
                 THEN [ok |-> TRUE,
                       val |-> [end_cursor |-> end_cursor.val,
                                has_next_page |-> has_next_page.val]]
                 ELSE [ok |-> FALSE]

\* go_down that does not insist on the edges member
go_down_EdgesOptional(value) ==
    IF value.t # "object" \/ "data" \notin DOMAIN value.v THEN <<>>
    ELSE LET data == value.v.data
         IN  IF data.t # "object" \/ "timelineCursor" \notin DOMAIN data.v THEN <<>>
             ELSE LET root == data.v.timelineCursor
                  IN  IF root.t # "object" THEN <<>>
                      ELSE IF "pageInfo" \notin DOMAIN root.v THEN <<>>
                      ELSE <<[edges |-> IF "edges" \in DOMAIN root.v
                                        THEN root.v.edges ELSE JNull,
                              info |-> root.v.pageInfo]>>

\* go_down: value.data.timelineCursor must be objects inside an object, and
\* the last one must have the members edges and pageInfo; None otherwise
go_down(value) ==
    IF value.t # "object" \/ "data" \notin DOMAIN value.v THEN <<>>
    ELSE LET data == value.v.data
         IN  IF data.t # "object" \/ "timelineCursor" \notin DOMAIN data.v THEN <<>>
             ELSE LET root == data.v.timelineCursor
                  IN  IF root.t # "object" THEN <<>>
                      ELSE IF "edges" \notin DOMAIN root.v THEN <<>>
                      ELSE IF "pageInfo" \notin DOMAIN root.v THEN <<>>
                      ELSE <<[edges |-> root.v.edges, info |-> root.v.pageInfo]>>

\* the loop left at the first edge that does not deserialize
ParseEdges_StopAtInvalid(edges_iter) ==
    LET item(i) == DeTimeLineItemEdge(edges_iter[i])
        bad     == {i \in 1..Len(edges_iter) : ~item(i).ok}
        n       == IF bad = {} THEN Len(edges_iter) ELSE Min(bad) - 1
    IN  [i \in 1..n |-> item(i).val]

\* the for loop of parse_songs: an edge that deserializes is pushed, one
\* that does not is logged and skipped
ParseEdges(edges_iter) ==
    LET items == [i \in 1..Len(edges_iter) |-> DeTimeLineItemEdge(edges_iter[i])]
        es    == SelectSeq(items, LAMBDA item : item.ok)
    IN  [i \in 1..Len(es) |-> es[i].val]

\* parse_songs: Err(WeirdFipJsonError) when go_down finds no envelope; the
\* edges that parse (none when edges is no array); Err(JsonError) when
\* pageInfo does not deserialize
parse_songs(value) ==
    LET g == go_down(value)
    IN  IF Len(g) = 0 THEN [ok |-> FALSE, err |-> "WeirdFipJsonError"]
        ELSE LET edges      == g[1].edges
                 edges_iter == IF edges.t = "array" THEN edges.v ELSE <<>>
                 es         == ParseEdges(edges_iter)
                 page_info  == DePageInfo(g[1].info)
             IN  IF ~page_info.ok THEN [ok |-> FALSE, err |-> "JsonError"]
                 ELSE [ok |-> TRUE,
                       items |-> [i \in 1..Len(es) |-> es[i].node],
                       page |-> page_info.val]

\* fetch_songs: the request is sent; a transport failure or a body that is
\* no JSON is Err(FipError), else the body goes to parse_songs. What the
\* feed answers does not depend on the model's side of the request.
fetch_songs(time, response) ==
    IF ~response.transport_ok THEN [ok |-> FALSE, err |-> "FipError"]
    ELSE parse_songs(response.body)

----------------------------------------------------------------------------
(* What the feed can answer: responses are described and then built *)

\* one element of the edges array: a well-formed record, or a malformed one
EdgeKinds ==
    {"good", "no_year", "node_array", "no_subtitle", "start_time_string", "no_node"}

EdgeParses(kind) == kind \in {"good", "no_year", "node_array"}

\* the node of an edge, with the members the feed sends (see the tests'
\* json_timeline_item) and the defect the kind names
NodeJson(e) ==
    LET common == [typename__ |-> JStr(<<84>>),
                   album |-> JStr(<<120>>),
                   interpreters |-> JArr(<<>>),
                   title |-> JStr(<<110>>)]
    IN  CASE e.kind = "good" ->
               JObj(common @@ [subtitle |-> JStr(e.subtitle), year |-> JNull,
                               start_time |-> JNum(e.start_time)])
          [] e.kind = "no_year" ->
               JObj(common @@ [subtitle |-> JStr(e.subtitle),
                               start_time |-> JNum(e.start_time)])
          [] e.kind = "node_array" ->
               JArr(<<JStr(<<120>>), JStr(e.subtitle), JArr(<<>>), JNull,
                      JNum(e.start_time)>>)
          [] e.kind = "no_subtitle" ->
               JObj(common @@ [year |-> JNull, start_time |-> JNum(e.start_time)])
          [] e.kind = "start_time_string" ->
               JObj(common @@ [subtitle |-> JStr(e.subtitle), year |-> JNull,
                               start_time |-> JStr(to_string(e.start_time))])
          [] OTHER -> JNull

EdgeJson(e) ==
    IF e.kind = "no_node" THEN JObj([cursor |-> JStr(<<>>)])
    ELSE JObj([node |-> NodeJson(e), cursor |-> JStr(<<>>)])

\* the TimelineItem a well-formed edge stands for
EdgeItem(e) == TimelineItem(e.subtitle, e.start_time)

PageInfoKinds == {"ok", "no_endCursor", "hasNextPage_null"}

PageInfoJson(d) ==
    CASE d.page_info = "ok" ->
           JObj([endCursor |-> JStr(d.end_cursor), hasNextPage |-> JBool(d.has_next_page)])
      [] d.page_info = "no_endCursor" ->
           JObj([hasNextPage |-> JBool(d.has_next_page)])
      [] OTHER ->
           JObj([endCursor |-> JStr(d.end_cursor), hasNextPage |-> JNull])

EnvelopeKinds ==
    {"full", "edges_null", "not_object", "no_data", "data_null",
     "no_timelineCursor", "timelineCursor_null", "no_edges", "no_pageInfo"}

EnvelopeLocatable(kind) == kind \in {"full", "edges_null"}

\* the body of a response
Body(d) ==
    LET edges == JArr([i \in 1..Len(d.edges) |-> EdgeJson(d.edges[i])])
        info  == PageInfoJson(d)
        Wrap(root) == JObj([data |-> JObj([timelineCursor |-> root])])
    IN  CASE d.envelope = "full" ->
               Wrap(JObj([totalCount |-> JNum(0), edges |-> edges, pageInfo |-> info]))
          [] d.envelope = "edges_null" ->
               Wrap(JObj([edges |-> JNull, pageInfo |-> info]))
          [] d.envelope = "not_object" -> JArr(<<edges, info>>)
          [] d.envelope = "no_data" -> JObj([errors |-> JArr(<<>>)])
          [] d.envelope = "data_null" -> JObj([data |-> JNull])
          [] d.envelope = "no_timelineCursor" -> JObj([data |-> JObj([other |-> JNull])])
          [] d.envelope = "timelineCursor_null" -> Wrap(JNull)
          [] d.envelope = "no_edges" -> Wrap(JObj([pageInfo |-> info]))
          [] OTHER -> Wrap(JObj([edges |-> edges]))

\* a response as fetch_songs sees it
Response(d) == [transport_ok |-> d.transport_ok, body |-> Body(d)]

\* all sequences over S of length at most n
BoundedSeq(S, n) == UNION {[1..k -> S] : k \in 0..n}

----------------------------------------------------------------------------
(* State *)

VARIABLES
    pc,         \* fetch_last_songs: "fetch" (about to call fetch_songs),
                \* "sent" (request sent, answer awaited), "done" (returned
                \* res); main: the statement reached, "exit" when it has
                \* returned; "panicked"; "idle" outside Spec
    current,    \* fetch_last_songs: current, in seconds
    until,      \* fetch_last_songs: until, in seconds
    res,        \* fetch_last_songs: res
    itrs,       \* fetch_last_songs: itrs
    tries,      \* retry: calls of the closure so far, 0 outside retry
    fetched,    \* fetch_songs calls that returned Ok so far
    page,       \* None, or Some(the PageInfo of the last page fetched)
    after,      \* build_query: the "after" variable of the request in flight
    delivered,  \* history: the events of the pages fetched, in fetch order
    panic,      \* what panicked: "" (nothing), "fetch", "cursor",
                \* "count_occurences", "auth", "check_playlists",
                \* "occ_limit", "search", "replace"
    songs,      \* count_occurences: its argument
    ranking,    \* None, or Some(what count_occurences did)
    time_sec,   \* build_query: time_sec
    cursor,     \* the cursor made from time_sec
    decoded,    \* None, or Some(result of decoding cursor)
    response,   \* the description of the response parse_songs is given
    parsed,     \* None, or Some(result of parse_songs)
    most_played,              \* main: most_played
    most_aired_tracks_ids,    \* main: most_aired_tracks_ids
    played_once_tracks_ids,   \* main: played_once_tracks_ids
    replaced    \* history: the user_playlist_replace_tracks calls that
                \* returned Ok, in order

walk_vars  ==
    <<pc, current, until, res, itrs, tries, fetched, page, after, delivered, panic>>
rank_vars  == <<songs, ranking>>
codec_vars == <<time_sec, cursor, decoded>>
parse_vars == <<response, parsed>>
main_vars  == <<most_played, most_aired_tracks_ids, played_once_tracks_ids, replaced>>
vars == <<walk_vars, rank_vars, codec_vars, parse_vars, main_vars>>

\* what each part of the program leaves alone
not_walk  == <<rank_vars, codec_vars, parse_vars, main_vars>>
not_rank  == <<walk_vars, codec_vars, parse_vars, main_vars>>
not_codec == <<walk_vars, rank_vars, parse_vars, main_vars>>
not_parse == <<walk_vars, rank_vars, codec_vars, main_vars>>

\* the locals of fetch_last_songs
walk_locals == <<current, until, res, itrs, tries, fetched, page, after, delivered>>

WalkIdle ==
    /\ pc = "idle" /\ current = 0 /\ until = 0 /\ res = <<>> /\ itrs = 0
    /\ tries = 0 /\ fetched = 0 /\ page = <<>> /\ after = <<>> /\ panic = ""
    /\ delivered = <<>>
RankIdle  == songs = <<>> /\ ranking = <<>>
CodecIdle == time_sec = 0 /\ cursor = <<>> /\ decoded = <<>>
ParseIdle == response = <<>> /\ parsed = <<>>
MainIdle ==
    /\ most_played = <<>> /\ most_aired_tracks_ids = <<>>
    /\ played_once_tracks_ids = <<>> /\ replaced = <<>>

----------------------------------------------------------------------------
(* fetch_last_songs *)

\* let max_pages = 100
max_pages == 100

\* delay::Fixed::from_millis(100).take(3): the iterator yields 3 delays
RetryDelays == 3

\* SystemTime::now() of the run, and the lookback dur, in seconds
Now == MaxTime - 1
LookBack == 1

\* retry that counts the first call as one of the 3
RetryHasDelay_CountsFirstCall(n) == n < RetryDelays

\* retry(delays, op): op is called, and called again after each delay the
\* iterator still yields; when op fails and no delay is left, retry gives
\* up. After the n-th failed call, n - 1 delays have been used.
RetryHasDelay(n) == n - 1 < RetryDelays

\* the cap compared with > in place of >=
StopWalk_CapOffByOne(i, has_next_page, end_sec, boundary) ==
    i > max_pages \/ ~has_next_page \/ end_sec < boundary

\* the boundary test left out
StopWalk_NoBoundary(i, has_next_page, end_sec, boundary) ==
    i >= max_pages \/ ~has_next_page

\* the boundary itself taken for a time before the boundary
StopWalk_BoundaryInclusive(i, has_next_page, end_sec, boundary) ==
    i >= max_pages \/ ~has_next_page \/ end_sec <= boundary

\* if itrs >= max_pages || !page.has_next_page || end_sec < until { break }
StopWalk(i, has_next_page, end_sec, boundary) ==
    i >= max_pages \/ ~has_next_page \/ end_sec < boundary

\* every request asked for the time of the run
request_time_AlwaysNow(cur) == Now

\* let t = SystemTime::UNIX_EPOCH + current, and time_sec of build_query,
\* t.duration_since(UNIX_EPOCH).as_secs(): the seconds of current
request_time(cur) == cur

\* the new events put in front of the old ones
append_InFront(vec, other) == other \o vec

\* res.append(ss.as_mut()): all of ss moved behind what res holds
append(vec, other) == vec \o other

\* end cursors that do not decode: "!!!!" (no base64), base64 of the byte
\* 0xFF (no UTF-8), base64 of "abc" (no number), "" (the empty number)
MalformedCursors ==
    {<<33, 33, 33, 33>>, base64_encode(<<255>>), base64_encode(<<97, 98, 99>>), <<>>}

WalkCursors == {time_encoded(t) : t \in 0..MaxTime} \cup MalformedCursors

WalkEdges ==
    {[kind |-> "good", subtitle |-> TitleA, start_time |-> 1],
     [kind |-> "good", subtitle |-> TitleB, start_time |-> 2],
     [kind |-> "no_subtitle", subtitle |-> <<>>, start_time |-> 3]}

\* a week of the feed in one page: BigPageLen plays of NumTitles titles
NumTitles == 151
BigPageLen == 153
BigEdges ==
    [i \in 1..BigPageLen |->
        [kind |-> "good", subtitle |-> <<((i - 1) % NumTitles) + 1>>, start_time |-> i]]

\* what the feed may answer to one request of the walk
WalkResponses ==
    {[transport_ok |-> TRUE, envelope |-> "full", edges |-> BigEdges,
      page_info |-> "ok", end_cursor |-> time_encoded(0), has_next_page |-> FALSE]}
    \cup
    {[transport_ok |-> FALSE, envelope |-> "full", edges |-> <<>>,
      page_info |-> "ok", end_cursor |-> <<>>, has_next_page |-> FALSE],
     [transport_ok |-> TRUE, envelope |-> "no_data", edges |-> <<>>,
      page_info |-> "ok", end_cursor |-> <<>>, has_next_page |-> FALSE],
     [transport_ok |-> TRUE, envelope |-> "full", edges |-> <<>>,
      page_info |-> "no_endCursor", end_cursor |-> <<>>, has_next_page |-> FALSE],
     [transport_ok |-> TRUE, envelope |-> "full",
      edges |-> <<[kind |-> "good", subtitle |-> TitleA, start_time |-> 1]>>,
      page_info |-> "no_endCursor", end_cursor |-> <<>>, has_next_page |-> FALSE]}
    \cup
    [transport_ok : {TRUE}, envelope : {"full"}, edges : BoundedSeq(WalkEdges, 1),
     page_info : {"ok"}, end_cursor : WalkCursors, has_next_page : BOOLEAN]

\* the answers fetch_songs turns into Err, and the pages it returns for the
\* others; what the feed answers does not depend on the state of the walk
FailedResponses == {d \in WalkResponses : ~fetch_songs(0, Response(d)).ok}
WalkPages ==
    {fetch_songs(0, Response(d)) : d \in WalkResponses \ FailedResponses}

\* the events collected so far returned in place of the panic
AfterUnwrapErr_ReturnsPartial == "done"

\* fip_call.unwrap() on Err: the thread panics, main ends
AfterUnwrapErr == "panicked"

\* the edges a failed call had parsed, kept
FailedCallEvents_KeepsParsed(d) ==
    IF d.transport_ok /\ EnvelopeLocatable(d.envelope)
    THEN LET es == SelectSeq(d.edges, LAMBDA e : EdgeParses(e.kind))
         IN  [i \in 1..Len(es) |-> EdgeItem(es[i])]
    ELSE <<>>

\* what a call of fetch_songs that returns Err leaves to the walk: the Err
\* carries no event, the edges parse_songs had parsed are dropped with it
FailedCallEvents(d) == <<>>

InitWalk ==
    /\ pc = "fetch"
    /\ current = Now
    /\ until = Now - LookBack
    /\ res = <<>>
    /\ itrs = 0
    /\ tries = 0
    /\ fetched = 0
    /\ page = <<>>
    /\ after = <<>>
    /\ delivered = <<>>
    /\ panic = ""

\* the closure given to retry is called: fetch_songs builds the query for
\* t = UNIX_EPOCH + current and sends it
SendRequest ==
    /\ pc = "fetch"
    /\ pc' = "sent"
    /\ tries' = tries + 1
    /\ after' = time_encoded(request_time(current))
    /\ UNCHANGED <<current, until, res, itrs, fetched, page, delivered, panic, not_walk>>

\* fetch_songs returns Err: retry sleeps and calls again while a delay is
\* left, else fip_call is Err and fip_call.unwrap() panics
FetchFailed ==
    /\ pc = "sent"
    /\ \E d \in FailedResponses :
          /\ res' = append(res, FailedCallEvents(d))
          /\ IF RetryHasDelay(tries)
                THEN pc' = "fetch" /\ panic' = panic
                ELSE pc' = AfterUnwrapErr /\ panic' = "fetch"
    /\ after' = <<>>
    /\ UNCHANGED <<current, until, itrs, tries, fetched, page, delivered, not_walk>>

\* fetch_songs returns Ok: the rest of the loop body
FetchOk ==
    /\ pc = "sent"
    /\ \E r \in WalkPages :
          /\ fetched = 0 \/ Len(res) + Len(r.items) <= MaxEvents
          /\ res' = append(res, r.items)
          /\ delivered' = delivered \o r.items
          /\ fetched' = fetched + 1
          /\ page' = <<r.page>>
          /\ LET end_sec == decode_end_cursor(r.page.end_cursor)
             IN  IF ~end_sec.ok
                 THEN /\ pc' = "panicked"
                      /\ panic' = "cursor"
                      /\ tries' = 0
                      /\ UNCHANGED <<current, itrs>>
                 ELSE /\ current' = end_sec.val
                      /\ panic' = panic
                      /\ IF StopWalk(itrs, r.page.has_next_page, end_sec.val, until)
                         THEN pc' = "done" /\ itrs' = itrs /\ tries' = 0
                         ELSE pc' = "fetch" /\ itrs' = itrs + 1 /\ tries' = 0
    /\ after' = <<>>
    /\ UNCHANGED <<until, not_walk>>

----------------------------------------------------------------------------
(* main *)

\* counted[149]: the index of the group whose count is the limit
OccLimitIndex == 149

\* take(100): the tracks a playlist gets at most
PlaylistLen == 100

\* what the catalog does with the searches of one find_tracks_metadata:
\* how many calls of a search fail before one returns, and which queries
\* it has a track for ("no_id": a track without id)
Catalogs ==
    [failures : {0, RetryDelays, RetryDelays + 1},
     finds : {"all", "even", "none", "no_id"}]

\* format!("track:{} album:{}", &t.subtitle, &t.album)
query(t) == [track |-> t.subtitle, album |-> t.album]

\* spotify.search_track(&q, 1, 0, None), when it returns Ok: track.tracks.items
search_track(catalog, q) ==
    IF catalog.finds = "none" \/ (catalog.finds = "even" /\ q.track[1] % 2 = 1)
    THEN <<>>
    ELSE <<[id |-> IF catalog.finds = "no_id" THEN <<>> ELSE <<q.track>>,
            popularity |-> q.track[1] % 3]>>

\* find_tracks_metadata: every item is searched, under retry and unwrap();
\* the first track found, if it has an id, gives the item's metadata
find_tracks_metadata(catalog, items) ==
    IF items # <<>> /\ catalog.failures > 0 /\ ~RetryHasDelay(catalog.failures)
    THEN [panicked |-> TRUE, metas |-> <<>>]
    ELSE LET found(item) ==
                 LET track == search_track(catalog, query(item[1]))
                 IN  Len(track) > 0 /\ Len(track[1].id) = 1
             hits == SelectSeq(items, found)
             meta(item) ==
                 LET f == search_track(catalog, query(item[1]))[1]
                 IN  [spotify_id |-> <<"spotify:track:", f.id[1]>>,
                      spotify_popularity |-> f.popularity,
                      fip_occ |-> item[2]]
         IN  [panicked |-> FALSE,
              metas |-> [i \in 1..Len(hits) |-> <<hits[i][1], meta(hits[i])>>]]

\* (fip_occ, spotify_popularity) compared as a pair
KeyLess(m, n) ==
    \/ m.fip_occ < n.fip_occ
    \/ m.fip_occ = n.fip_occ /\ m.spotify_popularity < n.spotify_popularity

InsertByMeta(x, sorted) ==
    LET p == Cardinality({j \in 1..Len(sorted) : ~KeyLess(x[2], sorted[j][2])})
    IN  SubSeq(sorted, 1, p) \o <<x>> \o SubSeq(sorted, p + 1, Len(sorted))

RECURSIVE SortRangeByMeta(_, _, _, _)
SortRangeByMeta(metas, lo, hi, sorted) ==
    IF lo > hi THEN sorted
    ELSE IF lo = hi THEN InsertByMeta(metas[lo], sorted)
    ELSE LET mid  == (lo + hi) \div 2
             left == SortRangeByMeta(metas, lo, mid, sorted)
         IN  IF Len(left) = 0 THEN left  \* never: lo..mid is not empty
             ELSE SortRangeByMeta(metas, mid + 1, hi, left)

\* sort_by_key(|i| (i.1.fip_occ, i.1.spotify_popularity)): stable, ascending
sort_by_meta(metas) == SortRangeByMeta(metas, 1, Len(metas), <<>>)

\* Vec::reverse
reverse(s) == [i \in 1..Len(s) |-> s[Len(s) + 1 - i]]

\* into_iter().take(100).map(|i| i.1.spotify_id).collect()
tracks_ids(metas) ==
    [i \in 1..(IF Len(metas) < PlaylistLen THEN Len(metas) ELSE PlaylistLen) |->
        metas[i][2].spotify_id]

\* take_while(|t| t.1 >= occ_limit)
take_while_played(counted, occ_limit) ==
    LET below == {i \in 1..Len(counted) : ~(counted[i][2] >= occ_limit)}
    IN  SubSeq(counted, 1, IF below = {} THEN Len(counted) ELSE Min(below) - 1)

\* let mut songs = fetch_last_songs(d); let counted = count_occurences(..):
\* the walk has returned res, its locals are gone
CountOccurences ==
    /\ pc = "done"
    /\ \E overflow_checks \in BOOLEAN :
          LET counted == count_occurences(res, overflow_checks)
          IN  /\ songs' = res
              /\ ranking' = <<counted>>
              /\ IF counted.panicked
                 THEN pc' = "panicked" /\ panic' = "count_occurences"
                 ELSE pc' = "counted" /\ panic' = panic
    /\ current' = 0 /\ until' = 0 /\ res' = <<>> /\ itrs' = 0 /\ tries' = 0
    /\ fetched' = 0 /\ page' = <<>> /\ after' = <<>> /\ delivered' = <<>>
    /\ UNCHANGED <<codec_vars, parse_vars, main_vars>>

\* spotify_create_client: panic!("Spotify auth failed") without a token
CreateClient ==
    /\ pc = "counted"
    /\ \E token \in BOOLEAN :
          IF token THEN pc' = "client" /\ panic' = panic
          ELSE pc' = "panicked" /\ panic' = "auth"
    /\ UNCHANGED <<walk_locals, rank_vars, codec_vars, parse_vars, main_vars>>

\* check_playlists(&spotify).unwrap()
CheckPlaylists ==
    /\ pc = "client"
    /\ \E ok \in BOOLEAN :
          IF ok THEN pc' = "checked" /\ panic' = panic
          ELSE pc' = "panicked" /\ panic' = "check_playlists"
    /\ UNCHANGED <<walk_locals, rank_vars, codec_vars, parse_vars, main_vars>>

\* let occ_limit = counted[149].1 (the index panics when out of bounds) and
\* most_played
TakeMostPlayed ==
    /\ pc = "checked"
    /\ LET counted == ranking[1].counted
       IN  IF OccLimitIndex >= Len(counted)
           THEN pc' = "panicked" /\ panic' = "occ_limit" /\ most_played' = most_played
           ELSE /\ pc' = "most_played"
                /\ panic' = panic
                /\ most_played' =
                      take_while_played(counted, counted[OccLimitIndex + 1][2])
    /\ UNCHANGED <<walk_locals, rank_vars, codec_vars, parse_vars,
                   most_aired_tracks_ids, played_once_tracks_ids, replaced>>

\* popular_tracks_meta: found, sorted, reversed; most_aired_tracks_ids
FindMostAired ==
    /\ pc = "most_played"
    /\ \E catalog \in Catalogs :
          LET found == find_tracks_metadata(catalog, most_played)
          IN  IF found.panicked
              THEN /\ pc' = "panicked" /\ panic' = "search"
                   /\ most_aired_tracks_ids' = most_aired_tracks_ids
              ELSE /\ pc' = "most_aired" /\ panic' = panic
                   /\ most_aired_tracks_ids' =
                         tracks_ids(reverse(sort_by_meta(found.metas)))
    /\ UNCHANGED <<walk_locals, rank_vars, codec_vars, parse_vars,
                   most_played, played_once_tracks_ids, replaced>>

\* played_once, played_once_meta: found, sorted; played_once_tracks_ids
FindPlayedOnce ==
    /\ pc = "most_aired"
    /\ \E catalog \in Catalogs :
          LET found == find_tracks_metadata(catalog, played_once(ranking[1].counted))
          IN  IF found.panicked
              THEN /\ pc' = "panicked" /\ panic' = "search"
                   /\ played_once_tracks_ids' = played_once_tracks_ids
              ELSE /\ pc' = "played_once" /\ panic' = panic
                   /\ played_once_tracks_ids' = tracks_ids(sort_by_meta(found.metas))
    /\ UNCHANGED <<walk_locals, rank_vars, codec_vars, parse_vars,
                   most_played, most_aired_tracks_ids, replaced>>

\* update_playlist("Discover FIPly", ..): user_playlist_replace_tracks(..).unwrap()
UpdateDiscover ==
    /\ pc = "played_once"
    /\ \E ok \in BOOLEAN :
          IF ok
          THEN /\ pc' = "discover" /\ panic' = panic
               /\ replaced' = Append(replaced, [name |-> "Discover FIPly",
                                                tracks |-> most_aired_tracks_ids])
          ELSE pc' = "panicked" /\ panic' = "replace" /\ replaced' = replaced
    /\ UNCHANGED <<walk_locals, rank_vars, codec_vars, parse_vars,
                   most_played, most_aired_tracks_ids, played_once_tracks_ids>>

\* update_playlist("What the Fip ?!", ..), and main returns
UpdateWhatTheFip ==
    /\ pc = "discover"
    /\ \E ok \in BOOLEAN :
          IF ok
          THEN /\ pc' = "exit" /\ panic' = panic
               /\ replaced' = Append(replaced, [name |-> "What the Fip ?!",
                                                tracks |-> played_once_tracks_ids])
          ELSE pc' = "panicked" /\ panic' = "replace" /\ replaced' = replaced
    /\ UNCHANGED <<walk_locals, rank_vars, codec_vars, parse_vars,
                   most_played, most_aired_tracks_ids, played_once_tracks_ids>>

Init == InitWalk /\ RankIdle /\ CodecIdle /\ ParseIdle /\ MainIdle

Next ==
    \/ SendRequest
    \/ FetchFailed
    \/ FetchOk
    \/ CountOccurences
    \/ CreateClient
    \/ CheckPlaylists
    \/ TakeMostPlayed
    \/ FindMostAired
    \/ FindPlayedOnce
    \/ UpdateDiscover
    \/ UpdateWhatTheFip

Spec == Init /\ [][Next]_vars

----------------------------------------------------------------------------
(* count_occurences on every short sequence of events *)

RankEvents == {TimelineItem(t, n) : t \in Titles, n \in 1..2}

\* titles A B A C B A, in the order played
RankingExample ==
    <<TimelineItem(TitleA, 1), TimelineItem(TitleB, 2), TimelineItem(TitleA, 3),
      TimelineItem(TitleC, 4), TimelineItem(TitleB, 5), TimelineItem(TitleA, 6)>>

\* two plays of B and then 256 plays of A, one more than a u8 counts
OverflowExample ==
    [i \in 1..258 |-> IF i <= 2 THEN TimelineItem(TitleB, i) ELSE TimelineItem(TitleA, i)]

InitRank ==
    /\ songs \in BoundedSeq(RankEvents, MaxSongs) \cup {RankingExample, OverflowExample}
    /\ ranking = <<>>

\* main: let counted = count_occurences(songs.as_mut()), in a build with
\* or without overflow checks
Rank ==
    /\ Len(ranking) = 0
    /\ \E overflow_checks \in BOOLEAN :
          ranking' = <<count_occurences(songs, overflow_checks)>>
    /\ UNCHANGED <<songs, not_rank>>

InitRankSpec == WalkIdle /\ InitRank /\ CodecIdle /\ ParseIdle /\ MainIdle

NextRank == Rank

SpecRank == InitRankSpec /\ [][NextRank]_vars

----------------------------------------------------------------------------
(* The cursor codec on times *)

CodecTimes ==
    (0..MaxSmallTime) \cup
    {999, 1000, 65535, 65536, 1000000000, 1572251846, 1574689282, 2147483647}

InitCodec ==
    /\ time_sec \in CodecTimes
    /\ cursor = <<>>
    /\ decoded = <<>>

\* build_query: let time_encoded = base64::encode(&time_sec.to_string())
Encode ==
    /\ cursor = <<>>
    /\ cursor' = time_encoded(time_sec)
    /\ UNCHANGED <<time_sec, decoded, not_codec>>

\* fetch_last_songs: the cursor is decoded
Decode ==
    /\ cursor # <<>>
    /\ Len(decoded) = 0
    /\ decoded' = <<decode_end_cursor(cursor)>>
    /\ UNCHANGED <<time_sec, cursor, not_codec>>

InitCodecSpec == WalkIdle /\ RankIdle /\ InitCodec /\ ParseIdle /\ MainIdle

NextCodec ==
    \/ Encode
    \/ Decode

SpecCodec == InitCodecSpec /\ [][NextCodec]_vars

----------------------------------------------------------------------------
(* parse_songs on every described response *)

ParseEdgeSet ==
    {[kind |-> "good", subtitle |-> TitleA, start_time |-> 1],
     [kind |-> "no_year", subtitle |-> TitleB, start_time |-> 2],
     [kind |-> "node_array", subtitle |-> TitleA, start_time |-> 3],
     [kind |-> "no_subtitle", subtitle |-> <<>>, start_time |-> 4],
     [kind |-> "start_time_string", subtitle |-> TitleB, start_time |-> 5],
     [kind |-> "no_node", subtitle |-> <<>>, start_time |-> 6]}

ParseResponses ==
    [transport_ok : {TRUE}, envelope : EnvelopeKinds,
     edges : BoundedSeq(ParseEdgeSet, MaxEdges),
     page_info : PageInfoKinds,
     end_cursor : {time_encoded(1574689282)}, has_next_page : BOOLEAN]

InitParse ==
    /\ response \in ParseResponses
    /\ parsed = <<>>

\* fetch_songs: parse_songs(resp)
Parse ==
    /\ Len(parsed) = 0
    /\ parsed' = <<parse_songs(Body(response))>>
    /\ UNCHANGED <<response, not_parse>>

InitParseSpec == WalkIdle /\ RankIdle /\ CodecIdle /\ InitParse /\ MainIdle

NextParse == Parse

SpecParse == InitParseSpec /\ [][NextParse]_vars

----------------------------------------------------------------------------
(* Properties of the pagination walk *)

WalkOver == pc \notin {"fetch", "sent"}

\* the steps the walk can still take at most: each page takes at most
\* RetryDelays + 1 calls, each a request and its answer
WalkMeasure ==
    IF WalkOver THEN 0
    ELSE (max_pages + 1 - fetched) * 2 * (RetryDelays + 1)
         - (2 * tries - (IF pc = "sent" THEN 1 ELSE 0))

\* C1: fetch_last_songs always terminates, and never has more than
\* max_pages + 1 = 101 page fetches succeed, whatever has_next_page and
\* end cursors the pages carry: no more than 101 fetches succeed, and every
\* step of the walk strictly lowers a natural number, which is positive
\* while the walk runs.
C1_Terminates ==
    /\ [](fetched <= max_pages + 1)
    /\ [](WalkMeasure >= 0 /\ (~WalkOver => WalkMeasure > 0))
    /\ [][~WalkOver => WalkMeasure' < WalkMeasure]_vars

\* C1 witness: a walk that only the page cap ended: 101 pages fetched, the
\* last one announcing a next page at a cursor not before the boundary.
C1_Witness ==
    /\ pc = "done"
    /\ fetched = max_pages + 1
    /\ page[1].has_next_page
    /\ current >= until

\* C2: every fetch after the first is issued at a cursor_time that is at
\* least the boundary: once an end cursor decodes below until, no request
\* follows.
C2_BoundaryRespect ==
    (pc \in {"fetch", "sent"} /\ fetched > 0) => current >= until

\* C2 witness: the walk ended on a cursor below the boundary although the
\* page announced a next page and the cap was not reached.
C2_Witness ==
    /\ pc = "done"
    /\ current < until
    /\ page[1].has_next_page
    /\ itrs < max_pages

\* C3 as stated: when every attempt for a page fails, the fetcher has been
\* called exactly 3 times when the collection fails.
C3_ThreeAttempts ==
    (pc = "panicked" /\ panic = "fetch") => tries = 3

\* C3 amended: when every attempt for a page fails, the fetcher has been
\* called exactly 4 times (the first call and one more after each of the 3
\* delays) when the collection fails.
C3_FourAttempts ==
    /\ (pc = "panicked" /\ panic = "fetch") => tries = RetryDelays + 1
    /\ tries <= RetryDelays + 1

\* C3 witness: the collection failed on retry exhaustion, on a later page.
C3_Witness == pc = "panicked" /\ panic = "fetch" /\ fetched > 0

----------------------------------------------------------------------------
(* Properties of count_occurences *)

Ranked == Len(ranking) = 1
Counted == ranking[1].counted

\* the number of events of s that bear the title
Occurrences(s, title) == Cardinality({i \in 1..Len(s) : s[i].subtitle = title})

TitlesOf(s) == {s[i].subtitle : i \in 1..Len(s)}

GroupTitles(c) == {c[i][1].subtitle : i \in 1..Len(c)}

RECURSIVE SumCounts(_)
SumCounts(c) == IF c = <<>> THEN 0 ELSE Head(c)[2] + SumCounts(Tail(c))

\* C4 as stated: for a non-empty input the result holds one group per
\* distinct title, and each group's count is the number of input events
\* with that title.
C4_CountsPerTitle ==
    (Ranked /\ songs # <<>>) =>
        /\ ~ranking[1].panicked
        /\ GroupTitles(Counted) = TitlesOf(songs)
        /\ Len(Counted) = Cardinality(TitlesOf(songs))
        /\ \A i \in 1..Len(Counted) :
              Counted[i][2] = Occurrences(songs, Counted[i][1].subtitle)

\* C5 as stated: the counts of the groups sum to the length of the input,
\* and every distinct input title is in exactly one group.
C5_Conservation ==
    (Ranked /\ ~ranking[1].panicked) =>
        /\ SumCounts(Counted) = Len(songs)
        /\ \A t \in TitlesOf(songs) :
              Cardinality({i \in 1..Len(Counted) : Counted[i][1].subtitle = t}) = 1

\* C6 as stated: on an empty event sequence count_occurences returns an
\* empty ranking, without panicking.
C6_EmptyInput ==
    (Ranked /\ songs = <<>>) =>
        (~ranking[1].panicked /\ Counted = <<>> /\ played_once(Counted) = <<>>)

\* C7 as stated: the played-exactly-once list holds exactly the titles that
\* occur once in the event sequence.
C7_PlayedOnce ==
    (Ranked /\ ~ranking[1].panicked) =>
        GroupTitles(played_once(Counted)) =
            {t \in TitlesOf(songs) : Occurrences(songs, t) = 1}

\* C8: the counts of consecutive groups of the result never increase.
C8_MostPlayedFirst ==
    (Ranked /\ ~ranking[1].panicked) =>
        \A i \in 1..(Len(Counted) - 1) : Counted[i][2] >= Counted[i + 1][2]

\* C8 witness: a ranking whose groups have different counts.
C8_Witness ==
    /\ Ranked
    /\ ~ranking[1].panicked
    /\ Len(Counted) >= 2
    /\ Counted[1][2] > Counted[Len(Counted)][2]

----------------------------------------------------------------------------
(* Properties of the cursor codec and of parse_songs *)

\* C9: decoding the cursor that encoding makes of a time yields that time.
C9_RoundTrip ==
    Len(decoded) = 1 => (decoded[1].ok /\ decoded[1].val = time_sec)

\* C9 witness: the end cursor of the repository's test, "MTU3NDY4OTI4Mg==",
\* made from 1574689282 and decoded.
C9_Witness ==
    /\ Len(decoded) = 1
    /\ time_sec = 1574689282
    /\ cursor = <<77, 84, 85, 51, 78, 68, 89, 52, 79, 84, 73, 52, 77, 103, 61, 61>>

RECURSIVE ParsableItems(_)
\* the items of the edges described as well-formed, in feed order
ParsableItems(edges) ==
    IF edges = <<>> THEN <<>>
    ELSE (IF EdgeParses(Head(edges).kind) THEN <<EdgeItem(Head(edges))>> ELSE <<>>)
         \o ParsableItems(Tail(edges))

\* C10: with a locatable envelope and a valid pageInfo, parse_songs returns
\* the records of the edges array that parse, in feed order, with the
\* envelope's endCursor and hasNextPage; a malformed record is dropped and
\* never fails the call.
C10_MalformedRecordsDropped ==
    (/\ Len(parsed) = 1
     /\ EnvelopeLocatable(response.envelope)
     /\ response.page_info = "ok") =>
        /\ parsed[1].ok
        /\ parsed[1].items =
              (IF response.envelope = "full" THEN ParsableItems(response.edges)
               ELSE <<>>)
        /\ parsed[1].page = [end_cursor |-> response.end_cursor,
                             has_next_page |-> response.has_next_page]

\* C10 witness: a page parsed from an edges array holding a malformed
\* record between two well-formed ones.
C10_Witness ==
    /\ Len(parsed) = 1
    /\ response.envelope = "full"
    /\ response.page_info = "ok"
    /\ Len(response.edges) = 3
    /\ EdgeParses(response.edges[1].kind)
    /\ response.edges[2].kind = "no_subtitle"
    /\ EdgeParses(response.edges[3].kind)
    /\ parsed[1].ok
    /\ Len(parsed[1].items) = 2

----------------------------------------------------------------------------
(* Further properties of parse_songs and count_occurences *)

\* C11: when the response lacks the data or timelineCursor object, or the
\* edges or pageInfo member, parse_songs fails with WeirdFipJsonError and
\* returns no events, whatever edges and pageInfo the response holds.
C11_EnvelopeFailure ==
    (Len(parsed) = 1 /\ ~EnvelopeLocatable(response.envelope)) =>
        (~parsed[1].ok /\ parsed[1].err = "WeirdFipJsonError")

\* C11 witness: a response without the edges member and with a valid
\* pageInfo was parsed.
C11_Witness ==
    /\ Len(parsed) = 1
    /\ response.envelope = "no_edges"
    /\ response.page_info = "ok"

\* the places of the events of s that bear the title
PlacesOf(s, title) == {i \in 1..Len(s) : s[i].subtitle = title}

\* the title no other title of s compares greater than
GreatestTitle(s) ==
    CHOOSE t \in TitlesOf(s) : \A u \in TitlesOf(s) : ~StrLess(t, u)

\* C17 as stated: the event a group retains is the last event of the
\* group's title in the input.
C17_LastOccurrence ==
    (Ranked /\ ~ranking[1].panicked) =>
        \A i \in 1..Len(Counted) :
            LET places == PlacesOf(songs, Counted[i][1].subtitle)
            IN  places # {} /\ Counted[i][1] = songs[Max(places)]

\* C17 amended: the event a group retains is an input event of the group's
\* title: the first one in the input (the first in title-sorted order),
\* except for the group of the greatest title, which retains the last one.
C17_FirstOccurrence ==
    (Ranked /\ ~ranking[1].panicked) =>
        \A i \in 1..Len(Counted) :
            LET title  == Counted[i][1].subtitle
                places == PlacesOf(songs, title)
            IN  /\ places # {}
                /\ Counted[i][1] =
                      (IF title = GreatestTitle(songs) THEN songs[Max(places)]
                       ELSE songs[Min(places)])

\* C17 witness: a group of two plays that differ, of a title that is not
\* the greatest.
C17_Witness ==
    /\ Ranked
    /\ ~ranking[1].panicked
    /\ \E i \in 1..Len(Counted) :
          LET places == PlacesOf(songs, Counted[i][1].subtitle)
          IN  /\ Counted[i][2] = 2
              /\ Counted[i][1].subtitle # GreatestTitle(songs)
              /\ songs[Min(places)] # songs[Max(places)]

\* C19 as stated: the u8 counter never overflows: count_occurences does not
\* panic on a non-empty input, and the count of every group is within
\* 1..255 and is the number of plays of its title. (Stated for the groups
\* of the titles below the greatest, whose count the loop makes.)
C19_NoOverflow ==
    (Ranked /\ songs # <<>>) =>
        /\ ~ranking[1].panicked
        /\ \A i \in 1..Len(Counted) :
              Counted[i][1].subtitle # GreatestTitle(songs) =>
                  /\ Counted[i][2] \in 1..255
                  /\ Counted[i][2] = Occurrences(songs, Counted[i][1].subtitle)

----------------------------------------------------------------------------
(* Further properties of fetch_last_songs *)

\* C13: the sequence fetch_last_songs returns is the concatenation, in
\* fetch order, of the event lists of the pages fetched, the last page
\* included: nothing dropped, duplicated or reordered.
C13_Concatenation == pc = "done" => res = delivered

\* C13 witness: the walk returned the events of two pages, which differ.
C13_Witness ==
    /\ pc = "done"
    /\ fetched >= 2
    /\ Len(res) = 2
    /\ res[1] # res[2]

\* C14: after a page is fetched and its cursor decoded, the walk stops if
\* the iteration count has reached 100, or has_next_page is false, or the
\* decoded time is strictly below the boundary; otherwise the count goes up
\* by one and another page is fetched.
C14_StopRule ==
    [][(pc = "sent" /\ fetched' = fetched + 1 /\ pc' # "panicked") =>
          LET end_sec == decode_end_cursor(page'[1].end_cursor).val
          IN  IF itrs >= 100 \/ ~page'[1].has_next_page \/ end_sec < until
              THEN pc' = "done" /\ itrs' = itrs
              ELSE pc' = "fetch" /\ itrs' = itrs + 1]_vars

\* C14 witness: the walk went on after a page whose cursor decodes to the
\* boundary itself.
C14_Witness ==
    /\ pc = "fetch"
    /\ fetched > 0
    /\ itrs = fetched
    /\ page[1].has_next_page
    /\ current = until

\* C15: the request for the first page asks for now, each later request
\* asks for the time decoded from the end cursor of the page fetched last,
\* and this on every attempt for the page.
C15_CursorChaining ==
    pc = "sent" =>
        after = time_encoded(IF fetched = 0 THEN Now
                             ELSE decode_end_cursor(page[1].end_cursor).val)

\* C15 witness: a second attempt for a later page, at a time other than now.
C15_Witness ==
    /\ pc = "sent"
    /\ fetched > 0
    /\ tries >= 2
    /\ current # Now

\* C16: a page whose end cursor does not decode ends the walk with a panic,
\* and nothing follows the panic: no fetch, for no cursor_time.
C16_DecodeFailureFatal ==
    /\ []((Len(page) = 1 /\ page[1].end_cursor \in MalformedCursors) =>
             (pc = "panicked" /\ panic = "cursor"))
    /\ [][pc = "panicked" => UNCHANGED vars]_vars

\* C16 witness: the end cursor of a later page did not decode.
C16_Witness ==
    /\ pc = "panicked"
    /\ panic = "cursor"
    /\ fetched > 1
    /\ page[1].end_cursor \in MalformedCursors

\* C18: a failed call of the fetcher leaves res, current and itrs (and
\* until, and the page fetched last) as they were, the next attempt asks
\* for the same time, and a call that succeeds gives what it gives on a
\* first attempt: the page's events behind res, the page's cursor, and no
\* trace of the attempts before.
C18_FailedAttemptFrame ==
    /\ [][(pc = "sent" /\ fetched' = fetched) =>
             UNCHANGED <<res, current, itrs, until, page, delivered>>]_vars
    /\ [](pc = "sent" => after = time_encoded(current))
    /\ [][(pc = "sent" /\ fetched' = fetched + 1) =>
             /\ SubSeq(res', 1, Len(res)) = res
             /\ SubSeq(res', Len(res) + 1, Len(res')) =
                   SubSeq(delivered', Len(delivered) + 1, Len(delivered'))
             /\ tries' = 0
             /\ pc' # "panicked" =>
                   /\ current' = decode_end_cursor(page'[1].end_cursor).val
                   /\ itrs' \in {itrs, itrs + 1}]_vars

\* C18 witness: an attempt for a later page has failed and the walk, with
\* the events it has, is about to try again.
C18_Witness ==
    /\ pc = "fetch"
    /\ tries >= 1
    /\ fetched >= 1
    /\ Len(res) >= 1

----------------------------------------------------------------------------
(* Properties of main *)

\* C12: when a page fetch exhausts its retries or an end cursor does not
\* decode, the run panics there: main gets no event list, partial or not,
\* nothing is ranked, no playlist is replaced, and nothing follows.
C12_AllOrNothing ==
    /\ [][(pc = "sent" /\ fetched' = fetched /\ tries = RetryDelays + 1) =>
             pc' = "panicked"]_vars
    /\ [][(pc = "sent" /\ fetched' = fetched + 1
              /\ page'[1].end_cursor \in MalformedCursors) =>
             pc' = "panicked"]_vars
    /\ [](panic \in {"fetch", "cursor"} =>
             /\ pc = "panicked"
             /\ songs = <<>>
             /\ ranking = <<>>
             /\ replaced = <<>>)
    /\ [][pc = "panicked" => UNCHANGED vars]_vars

\* C12 witness: the retries ran out on a later page, with events of the
\* pages before in res.
C12_Witness ==
    /\ pc = "panicked"
    /\ panic = "fetch"
    /\ Len(res) >= 1
    /\ replaced = <<>>

\* the names of the playlists replaced, in the order of the calls
ReplacedNames == [i \in 1..Len(replaced) |-> replaced[i].name]

\* C20 as stated: when the collection returned at least one event and no
\* call to the catalog or to a playlist failed, main does not stop before
\* it has replaced Discover FIPly and then What the Fip, each once,
\* whatever the number of titles.
C20_BothPlaylistsReplaced ==
    (/\ pc \in {"exit", "panicked"}
     /\ Len(songs) >= 1
     /\ panic \notin {"fetch", "cursor", "auth", "check_playlists", "search", "replace"})
    => (pc = "exit" /\ ReplacedNames = <<"Discover FIPly", "What the Fip ?!">>)

====
